---- MODULE Spec2Model ----
(***************************************************************************)
(* Ant Colony Optimisation for the Travelling Salesman Problem             *)
(* (src/main/main.go) as a state machine.                                  *)
(*                                                                         *)
(* Numbers.  The program computes in float64; the model computes in exact  *)
(* arithmetic and keeps the IEEE-754 classes +Inf and NaN that the         *)
(* program's divisions by zero produce.                                    *)
(*   - calEdge (line 339) returns sqrt(dy^2 + dy^2) = |dy| * sqrt(2), so   *)
(*     every edge cost and every tour length is a natural multiple of      *)
(*     sqrt(2): a length is stored as that multiple.                       *)
(*   - a pheromone value is a + b / sqrt(2) with a, b rational (the base   *)
(*     value 1, scaled by 1 - rho, plus deposits qval / tourlength), or    *)
(*     +Inf, or NaN: it is stored as [k, a, b].                            *)
(*   - math.Pow(x, 0.8) keeps the class (zero, positive, +Inf, NaN) of x,  *)
(*     which is all the acceptance test rand.Float64() < p depends on.     *)
(* Slices are functions on 0 .. n-1; a nil slice is <<>>.                  *)
(***************************************************************************)
EXTENDS Integers, Sequences, FiniteSets

\* ------------------------------------------------------------------ bounds
\* Cities per run, largest coordinate, agents per round, rounds per
\* experiment, experiments per run; MaxWork bounds edges * agents * rounds *
\* experiments of a run; MaxGridCities bounds the lists of SpecGraph.
MaxCities == 3
MaxCoord == 1
MaxAnts == 2
MaxTours == 2
MaxTimes == 2
MaxWork == 6
MaxGridCities == 4

\* --------------------------------------------------------- program constants
qval == 1

VARIABLES
  cities, numCities, adjMatrix, tauMatrix, ants, besttour, currentIndex,
  rho, numAnts, times, tours,
  i, iterations, avgavg, avgbest, besttourlens, avgtourlens,
  pc, antI,
  bestSeen, intens, evapLog

vars == <<cities, numCities, adjMatrix, tauMatrix, ants, besttour, currentIndex,
          rho, numAnts, times, tours,
          i, iterations, avgavg, avgbest, besttourlens, avgtourlens,
          pc, antI, bestSeen, intens, evapLog>>

\* ------------------------------------------------------- exact arithmetic
Abs(x) == IF x < 0 THEN -x ELSE x

RECURSIVE GCD(_, _)
GCD(a, b) == IF b = 0 THEN a ELSE GCD(b, a % b)

\* A rational is <<numerator, denominator>>, denominator > 0, in lowest terms.
Rat(n, d) == LET g == GCD(Abs(n), d) IN <<n \div g, d \div g>>
RZero == <<0, 1>>
ROne == <<1, 1>>
RAdd(p, q) == Rat(p[1] * q[2] + q[1] * p[2], p[2] * q[2])
RSub(p, q) == Rat(p[1] * q[2] - q[1] * p[2], p[2] * q[2])
RMul(p, q) == Rat(p[1] * q[1], p[2] * q[2])
RLess(p, q) == p[1] * q[2] < q[1] * p[2]
RLeq(p, q) == p[1] * q[2] <= q[1] * p[2]

\* float64 values of the pheromone matrix: a + b / sqrt(2), +Inf or NaN.
Fin(a, b) == [k |-> "fin", a |-> a, b |-> b]
PInf == [k |-> "inf", a |-> RZero, b |-> RZero]
NaN == [k |-> "nan", a |-> RZero, b |-> RZero]

\* The sign of a + b / sqrt(2): compare a^2 * 2 with b^2 when the signs differ.
FinSign(a, b) ==
  IF a[1] >= 0 /\ b[1] >= 0 THEN (IF a[1] = 0 /\ b[1] = 0 THEN 0 ELSE 1)
  ELSE IF a[1] <= 0 /\ b[1] <= 0 THEN -1
  ELSE IF a[1] > 0
       THEN (IF RLess(RMul(b, b), RMul(<<2, 1>>, RMul(a, a))) THEN 1 ELSE -1)
       ELSE (IF RLess(RMul(<<2, 1>>, RMul(a, a)), RMul(b, b)) THEN 1 ELSE -1)

\* x + y in float64.
FAdd(x, y) ==
  IF x.k = "nan" \/ y.k = "nan" THEN NaN
  ELSE IF x.k = "inf" \/ y.k = "inf" THEN PInf
  ELSE Fin(RAdd(x.a, y.a), RAdd(x.b, y.b))

\* x * r in float64, r a rational >= 0 (+Inf * 0 is NaN).
FScale(x, r) ==
  IF x.k = "nan" THEN NaN
  ELSE IF x.k = "inf" THEN (IF r[1] = 0 THEN NaN ELSE PInf)
  ELSE Fin(RMul(x.a, r), RMul(x.b, r))

\* x < 0.0 in float64 (false for NaN and +Inf).
FNegative(x) == x.k = "fin" /\ FinSign(x.a, x.b) < 0

\* The class of x: what x != 0 and math.Pow(x, alpha) depend on.
FClass(x) ==
  IF x.k = "fin" THEN (IF FinSign(x.a, x.b) = 0 THEN "zero" ELSE "pos") ELSE x.k

\* qval / tourlength (line 317): tourlength is len * sqrt(2), 1.0 / 0 is +Inf.
DeltaTau(len) == IF len = 0 THEN PInf ELSE Fin(RZero, Rat(qval, len))

\* float64 statistics, in units of sqrt(2): a rational, or NaN (0.0 / 0),
\* or +Inf (x / 0, x > 0).
Stat(r) == [k |-> "fin", v |-> r]
StatNaN == [k |-> "nan", v |-> RZero]
StatInf == [k |-> "inf", v |-> RZero]

\* r / float64(n), r >= 0.
StatDiv(r, n) ==
  IF n = 0 THEN (IF r[1] = 0 THEN StatNaN ELSE StatInf) ELSE Stat(RMul(r, Rat(1, n)))

\* ----------------------------------------------------------- the graph
\* The radicand of calEdge (line 339): it reads the y difference twice.
calEdgeSq(c1, c2) ==
  (c2.y - c1.y) * (c2.y - c1.y) + (c2.y - c1.y) * (c2.y - c1.y)

\* calEdge: the square root of the radicand, as a multiple of sqrt(2).
calEdge(c1, c2) == CHOOSE k \in 0 .. calEdgeSq(c1, c2) : 2 * k * k = calEdgeSq(c1, c2)

Idx(n) == 0 .. n - 1

City(x, y) == [x |-> x, y |-> y]

\* Coordinate lists of n cities on the grid xs \X ys.
CityLists(n, xs, ys) == [Idx(n) -> {City(x, y) : x \in xs, y \in ys}]

\* ------------------------------------------------------------ initial state
\* Zero values of the package-level variables; the configuration and the
\* coordinate list (readFile's result) are the run's inputs.
ZeroState ==
  /\ numCities = 0
  /\ adjMatrix = <<>>
  /\ tauMatrix = <<>>
  /\ ants = <<>>
  /\ besttour = <<>>
  /\ currentIndex = 0
  /\ i = 0
  /\ iterations = 0
  /\ avgavg = <<>>
  /\ avgbest = <<>>
  /\ besttourlens = <<>>
  /\ avgtourlens = <<>>
  /\ pc = "initGraph"
  /\ antI = 0
  /\ bestSeen = [len |-> 0, tours |-> {}]
  /\ intens = 0
  /\ evapLog = <<>>

RhoValues == {<<3, 5>>, <<1, 1>>}

\* The edges of the complete graph on n cities.
Edges(n) == (n * (n - 1)) \div 2

\* The runs of Spec: up to MaxCities cities, a rho of the default 0.6 or the
\* boundary 1.0, counts from 0 up, the whole run bounded by MaxWork.  Only
\* calEdge reads the coordinates, and it reads y alone, so x is left at 0
\* here; SpecGraph ranges over both coordinates.
Init ==
  /\ ZeroState
  /\ \E n \in 0 .. MaxCities : cities \in CityLists(n, {0}, 0 .. MaxCoord)
  /\ rho \in RhoValues
  /\ numAnts \in 0 .. MaxAnts
  /\ times \in 0 .. MaxTimes
  /\ tours \in 0 .. MaxTours
  /\ Edges(Cardinality(DOMAIN cities)) * numAnts * tours * times <= MaxWork

\* initGraph (lines 325-335) and the result slices main allocates (72-77).
InitGraph ==
  /\ pc = "initGraph"
  /\ numCities' = Cardinality(DOMAIN cities)
  /\ adjMatrix' = [a \in DOMAIN cities |-> [b \in DOMAIN cities |->
                     calEdge(cities[a], cities[b])]]
  /\ avgavg' = [e \in Idx(times) |-> Stat(RZero)]
  /\ avgbest' = [e \in Idx(times) |-> Stat(RZero)]
  /\ besttourlens' = [e \in Idx(times) |-> 0]
  /\ avgtourlens' = [e \in Idx(times) |-> RZero]
  /\ i' = 0
  /\ iterations' = 0
  /\ pc' = "initTrail"
  /\ UNCHANGED <<cities, tauMatrix, ants, besttour, currentIndex, rho, numAnts,
                 times, tours, antI, bestSeen, intens, evapLog>>

\* initTrail (lines 170-182), called once, before the experiment loop (line 79).
BaseTau == Fin(ROne, RZero)
ZeroTau == Fin(RZero, RZero)

initTrail(n) ==
  [a \in Idx(n) |-> [b \in Idx(n) |-> IF a # b THEN BaseTau ELSE ZeroTau]]

InitTrail ==
  /\ pc = "initTrail"
  /\ tauMatrix' = initTrail(numCities)
  /\ pc' = "expLoop"
  /\ UNCHANGED <<cities, numCities, adjMatrix, ants, besttour, currentIndex,
                 rho, numAnts, times, tours, i, iterations, avgavg, avgbest,
                 besttourlens, avgtourlens, antI, bestSeen, intens, evapLog>>

\* main, lines 80-82: the head of the experiment loop.
StartExperiment ==
  /\ pc = "expLoop"
  /\ i < times
  /\ iterations' = 0
  /\ besttour' = <<>>
  /\ bestSeen' = [len |-> 0, tours |-> {}]
  /\ pc' = "roundLoop"
  /\ UNCHANGED <<cities, numCities, adjMatrix, tauMatrix, ants, currentIndex,
                 rho, numAnts, times, tours, i, avgavg, avgbest,
                 besttourlens, avgtourlens, antI, intens, evapLog>>

\* main, lines 104-105: the experiment loop is over, the statistics are printed.
Finish ==
  /\ pc = "expLoop"
  /\ i >= times
  /\ pc' = "done"
  /\ UNCHANGED <<cities, numCities, adjMatrix, tauMatrix, ants, besttour,
                 currentIndex, rho, numAnts, times, tours, i, iterations, avgavg,
                 avgbest, besttourlens, avgtourlens, antI, bestSeen, intens,
                 evapLog>>

\* ------------------------------------------------------------------ ants
ZeroAnt ==
  [tabulist |-> <<>>, currentCity |-> 0, nextCity |-> 0, tour |-> <<>>,
   tourIndex |-> 0, tourlength |-> 0]

\* One ant as initAnts leaves it (lines 189-194): no city is marked in tabulist.
NewAnt(n, start) ==
  [tabulist |-> [c \in Idx(n) |-> 0], currentCity |-> start, nextCity |-> 0,
   tour |-> [c \in Idx(n) |-> 0], tourIndex |-> 0, tourlength |-> 0]

\* initAnts (lines 185-196) at the head of a round (line 83); rand.Intn(0)
\* panics when there is no city.
InitAnts ==
  /\ pc = "roundLoop"
  /\ iterations < tours
  /\ IF numAnts > 0 /\ numCities = 0
     THEN /\ ants' = [a \in Idx(numAnts) |-> ZeroAnt]
          /\ pc' = "panic"
          /\ UNCHANGED <<antI, currentIndex>>
     ELSE /\ \E start \in [Idx(numAnts) -> Idx(numCities)] :
               ants' = [a \in Idx(numAnts) |-> NewAnt(numCities, start[a])]
          /\ antI' = 0
          /\ currentIndex' = IF numAnts > 0 THEN 0 ELSE currentIndex
          /\ pc' = IF numAnts > 0 THEN "moveAnts" ELSE "intensify"
  /\ UNCHANGED <<cities, numCities, adjMatrix, tauMatrix, besttour, rho,
                 numAnts, times, tours, i, iterations, avgavg, avgbest,
                 besttourlens, avgtourlens, bestSeen, intens, evapLog>>

\* ------------------------------------------------- goToNewCity (210-250)
\* Classes of float64 products and quotients.
ClassMul(x, y) ==
  IF x = "nan" \/ y = "nan" THEN "nan"
  ELSE IF (x = "zero" /\ y = "inf") \/ (x = "inf" /\ y = "zero") THEN "nan"
  ELSE IF x = "zero" \/ y = "zero" THEN "zero"
  ELSE IF x = "inf" \/ y = "inf" THEN "inf"
  ELSE "pos"

\* 1.0 / adjMatrix[from][to]: +Inf for a zero cost.
InvClass(cost) == IF cost = 0 THEN "inf" ELSE "pos"

\* math.Pow(tau, alpha) * math.Pow(1.0 / adj, beta), lines 218 and 229.
ScoreClass(tau, adj, from, to) ==
  ClassMul(FClass(tau[from][to]), InvClass(adj[from][to]))

\* Candidates without the tabulist test of line 228.
CandidatesIgnoringTabu(ant, n) == {to \in Idx(n) : to # ant.currentCity}

\* The cities the scan tests: not the current one, not in tabulist (227-228).
Candidates(ant, n) ==
  {to \in Idx(n) : to # ant.currentCity /\ ant.tabulist[to] = 0}

\* The cities whose score is added to denom (line 217).
Contributors(ant, n, tau, adj) ==
  {to \in Candidates(ant, n) :
     FClass(tau[ant.currentCity][to]) # "zero" /\ adj[ant.currentCity][to] # 0}

\* denom after the first loop (lines 213-224).
DenomClass(ant, n, tau, adj) ==
  LET cs == {ScoreClass(tau, adj, ant.currentCity, to) :
               to \in Contributors(ant, n, tau, adj)}
  IN IF "nan" \in cs THEN "nan"
     ELSE IF "inf" \in cs THEN "inf"
     ELSE IF cs # {} THEN "pos"
     ELSE "zero"

\* p of line 229: "one" when the city is the only contributor to denom,
\* "frac" (0 < p < 1) when it shares denom with others.
PClass(ant, n, tau, adj, to) ==
  LET s == ScoreClass(tau, adj, ant.currentCity, to)
      d == DenomClass(ant, n, tau, adj)
  IN IF s = "nan" \/ d = "nan" THEN "nan"
     ELSE IF s = "zero" THEN (IF d = "zero" THEN "nan" ELSE "zero")
     ELSE IF s = "inf" THEN (IF d = "inf" THEN "nan" ELSE "inf")
     ELSE IF d = "inf" THEN "zero"
     ELSE IF Contributors(ant, n, tau, adj) = {to} THEN "one"
     ELSE "frac"

\* rand.Float64() < p, with rand.Float64() in [0, 1): may hold, must hold.
MayAccept(p) == p \in {"frac", "one", "inf"}
MustAccept(p) == p \in {"one", "inf"}

\* The cities the scan (lines 225-240) can break on: it starts at city 0 and
\* never gets past a candidate it must accept.
Selectable(ant, n, tau, adj) ==
  {to \in Candidates(ant, n) :
     /\ MayAccept(PClass(ant, n, tau, adj, to))
     /\ \A t \in Candidates(ant, n) :
          t < to => ~MustAccept(PClass(ant, n, tau, adj, t))}

\* Lines 241-249: the ant moves to the selected city.
Advance(ant, n, adj, to) ==
  LET tour1 == [ant.tour EXCEPT ![ant.tourIndex] = to]
      idx1 == ant.tourIndex + 1
      len1 == ant.tourlength + adj[ant.currentCity][to]
  IN [tabulist |-> [ant.tabulist EXCEPT ![to] = 1],
      currentCity |-> to,
      nextCity |-> to,
      tour |-> tour1,
      tourIndex |-> idx1,
      tourlength |-> IF idx1 = n THEN len1 + adj[tour1[n - 1]][tour1[0]]
                     ELSE len1]

\* One call of goToNewCity from moveAnts (lines 199-207), with the loop
\* counters of moveAnts.
GoToNewCity ==
  /\ pc = "moveAnts"
  /\ \E to \in Selectable(ants[antI], numCities, tauMatrix, adjMatrix) :
       ants' = [ants EXCEPT ![antI] = Advance(ants[antI], numCities, adjMatrix, to)]
  /\ IF currentIndex + 1 < numCities
     THEN /\ currentIndex' = currentIndex + 1
          /\ UNCHANGED <<antI, pc>>
     ELSE /\ antI' = antI + 1
          /\ currentIndex' = IF antI + 1 < numAnts THEN 0 ELSE currentIndex + 1
          /\ pc' = IF antI + 1 < numAnts THEN "moveAnts" ELSE "intensify"
  /\ UNCHANGED <<cities, numCities, adjMatrix, tauMatrix, besttour, rho,
                 numAnts, times, tours, i, iterations, avgavg, avgbest,
                 besttourlens, avgtourlens, bestSeen, intens, evapLog>>

\* goToNewCity when no draw can pass the test of line 231: the loop of
\* lines 226-240 has no other exit and runs forever.
ScanForever ==
  /\ pc = "moveAnts"
  /\ Selectable(ants[antI], numCities, tauMatrix, adjMatrix) = {}
  /\ pc' = "spin"
  /\ UNCHANGED <<cities, numCities, adjMatrix, tauMatrix, ants, besttour,
                 currentIndex, rho, numAnts, times, tours, i, iterations, avgavg,
                 avgbest, besttourlens, avgtourlens, antI, bestSeen, intens,
                 evapLog>>

\* ------------------------------------------------ intensifyTrail (311-322)
\* The double loop from step k on; step k is ant k \div n, position k % n.
RECURSIVE intensifyFrom(_, _, _, _, _)
intensifyFrom(tau, as, na, n, k) ==
  IF k >= na * n THEN tau
  ELSE LET ant == as[k \div n]
           c == k % n
           from == ant.tour[c]
           to == ant.tour[(c + 1) % n]
           v == FAdd(tau[from][to], DeltaTau(ant.tourlength))
           t1 == [tau EXCEPT ![from][to] = v]
           t2 == [t1 EXCEPT ![to][from] = v]
       IN intensifyFrom(t2, as, na, n, k + 1)

intensifyTrail(tau, as, na, n) == intensifyFrom(tau, as, na, n, 0)

IntensifyTrail ==
  /\ pc = "intensify"
  /\ tauMatrix' = intensifyTrail(tauMatrix, ants, numAnts, numCities)
  /\ intens' = intens + 1
  /\ pc' = "calcBest"
  /\ UNCHANGED <<cities, numCities, adjMatrix, ants, besttour, currentIndex,
                 rho, numAnts, times, tours, i, iterations, avgavg, avgbest,
                 besttourlens, avgtourlens, antI, bestSeen, evapLog>>

\* ------------------------------------------------- calculateBest (152-167)
\* The loop of lines 159-165 from ant k on.
RECURSIVE bestFrom(_, _, _, _, _)
bestFrom(as, na, k, bestlength, bt) ==
  IF k >= na THEN [best |-> bestlength, tour |-> bt]
  ELSE IF as[k].tourlength < bestlength
       THEN bestFrom(as, na, k + 1, as[k].tourlength, as[k].tour)
       ELSE bestFrom(as, na, k + 1, bestlength, bt)

\* bestlength starts at the first ant's; besttour is set from the first ant
\* only when it is nil.
calculateBest(as, na, bt) ==
  bestFrom(as, na, 0, as[0].tourlength, IF bt = <<>> THEN as[0].tour ELSE bt)

\* History: the least tour length of the experiment's agents so far, and
\* the tours that have it.
Shortest(as, na) ==
  LET m == CHOOSE x \in {as[a].tourlength : a \in Idx(na)} :
             \A a \in Idx(na) : x <= as[a].tourlength
  IN [len |-> m, tours |-> {as[a].tour : a \in {b \in Idx(na) : as[b].tourlength = m}}]

Seen(old, as, na) ==
  LET r == Shortest(as, na)
  IN IF old.tours = {} \/ r.len < old.len THEN r
     ELSE IF r.len = old.len THEN [len |-> r.len, tours |-> old.tours \cup r.tours]
     ELSE old

\* main, line 92; ants[0] panics (index out of range) when there is no ant.
CalcBest ==
  /\ pc = "calcBest"
  /\ IF numAnts = 0
     THEN /\ pc' = "panic"
          /\ UNCHANGED <<besttour, besttourlens, bestSeen>>
     ELSE LET r == calculateBest(ants, numAnts, besttour)
          IN /\ besttour' = r.tour
             /\ besttourlens' = [besttourlens EXCEPT ![i] = @ + r.best]
             /\ bestSeen' = Seen(bestSeen, ants, numAnts)
             /\ pc' = "calcAvg"
  /\ UNCHANGED <<cities, numCities, adjMatrix, tauMatrix, ants, currentIndex,
                 rho, numAnts, times, tours, i, iterations, avgavg, avgbest,
                 avgtourlens, antI, intens, evapLog>>

\* -------------------------------------------------- calculateAvg (141-149)
RECURSIVE totalFrom(_, _, _)
totalFrom(as, na, k) ==
  IF k >= na THEN 0 ELSE as[k].tourlength + totalFrom(as, na, k + 1)

\* The total is divided by times (line 147).
calculateAvg(as, na, tm) == Rat(totalFrom(as, na, 0), tm)

\* -------------------------------------------- evaporatePheromone (298-308)
evaporatePheromone(tau, n, r) ==
  [from \in Idx(n) |-> [to \in Idx(n) |->
     LET v == FScale(tau[from][to], RSub(ROne, r))
     IN IF FNegative(v) THEN BaseTau ELSE v]]

\* Lines 93-94 with the evaporation of line 97 moved into the round loop.
CalcAvgThenEvaporate ==
  /\ pc = "calcAvg"
  /\ avgtourlens' = [avgtourlens EXCEPT
                       ![i] = RAdd(@, calculateAvg(ants, numAnts, times))]
  /\ iterations' = iterations + 1
  /\ tauMatrix' = evaporatePheromone(tauMatrix, numCities, rho)
  /\ evapLog' = Append(evapLog, intens)
  /\ intens' = 0
  /\ pc' = "roundLoop"
  /\ UNCHANGED <<cities, numCities, adjMatrix, ants, besttour,
                 currentIndex, rho, numAnts, times, tours, i, avgavg, avgbest,
                 besttourlens, antI, bestSeen>>

\* main, lines 93-94.
CalcAvg ==
  /\ pc = "calcAvg"
  /\ avgtourlens' = [avgtourlens EXCEPT
                       ![i] = RAdd(@, calculateAvg(ants, numAnts, times))]
  /\ iterations' = iterations + 1
  /\ pc' = "roundLoop"
  /\ UNCHANGED <<cities, numCities, adjMatrix, tauMatrix, ants, besttour,
                 currentIndex, rho, numAnts, times, tours, i, avgavg, avgbest,
                 besttourlens, antI, bestSeen, intens, evapLog>>

\* main, line 97: after the round loop of the experiment.  History: evapLog
\* gets the number of intensifyTrail calls since the previous evaporation.
Evaporate ==
  /\ pc = "roundLoop"
  /\ iterations >= tours
  /\ tauMatrix' = evaporatePheromone(tauMatrix, numCities, rho)
  /\ evapLog' = Append(evapLog, intens)
  /\ intens' = 0
  /\ pc' = "report"
  /\ UNCHANGED <<cities, numCities, adjMatrix, ants, besttour, currentIndex,
                 rho, numAnts, times, tours, i, iterations, avgavg, avgbest,
                 besttourlens, avgtourlens, antI, bestSeen>>

\* main, lines 98-102: besttour is printed, the experiment's means are stored.
ReportExperiment ==
  /\ pc = "report"
  /\ avgavg' = [avgavg EXCEPT ![i] = StatDiv(avgtourlens[i], tours)]
  /\ avgbest' = [avgbest EXCEPT ![i] = StatDiv(Rat(besttourlens[i], 1), tours)]
  /\ i' = i + 1
  /\ pc' = "expLoop"
  /\ UNCHANGED <<cities, numCities, adjMatrix, tauMatrix, ants, besttour,
                 currentIndex, rho, numAnts, times, tours, iterations,
                 besttourlens, avgtourlens, antI, bestSeen, intens, evapLog>>

Next ==
  \/ InitGraph
  \/ InitTrail
  \/ StartExperiment
  \/ Finish
  \/ InitAnts
  \/ GoToNewCity
  \/ ScanForever
  \/ IntensifyTrail
  \/ CalcBest
  \/ CalcAvg
  \/ Evaporate
  \/ ReportExperiment

Spec == Init /\ [][Next]_vars

\* The distance model alone: coordinate lists on the whole grid, then initGraph.
InitGrid ==
  /\ ZeroState
  /\ \E n \in 0 .. MaxGridCities :
       cities \in CityLists(n, 0 .. MaxCoord, 0 .. MaxCoord)
  /\ rho = <<3, 5>>
  /\ numAnts = 1
  /\ times = 1
  /\ tours = 1

SpecGraph == InitGrid /\ [][InitGraph]_vars

\* ------------------------------------------------------------------ claims
\* Runs with at least one city, agent, round and experiment.
PositiveCounts == cities # <<>> /\ numAnts >= 1 /\ tours >= 1 /\ times >= 1

\* The inputs section 7 of the specification rejects: no city, rho outside
\* (0, 1), or a population, round or experiment count that is not positive.
InvalidRun ==
  ~PositiveCounts \/ ~(RLess(<<0, 1>>, rho) /\ RLess(rho, <<1, 1>>))

ValidRun == ~InvalidRun

\* No two cities on the same y: every edge has a positive cost, so no tour
\* has length 0 and no deposit is +Inf.
DistinctY ==
  \A a \in DOMAIN cities : \A b \in DOMAIN cities :
    a # b => cities[a].y # cities[b].y

\* An agent whose tour construction has finished.
Finished(a) == ants[a].tourIndex = numCities

\* C1: with at least two cities, the tour of every agent whose construction
\* has finished has numCities entries and holds every city index exactly once.
C1_TourIsPermutation ==
  numCities >= 2 =>
    \A a \in DOMAIN ants :
      Finished(a) =>
        /\ DOMAIN ants[a].tour = Idx(numCities)
        /\ \A c \in Idx(numCities) :
             Cardinality({k \in Idx(numCities) : ants[a].tour[k] = c}) = 1

C1_Witness ==
  /\ numCities = 3
  /\ \E a \in DOMAIN ants : Finished(a) /\ ants[a].tour[0] # ants[a].tour[2]

\* The cost of a tour taken as a cycle: the edges between consecutive
\* entries and the closing edge.
RECURSIVE CycleFrom(_, _, _)
CycleFrom(tour, n, k) ==
  IF k >= n THEN 0
  ELSE adjMatrix[tour[k]][tour[(k + 1) % n]] + CycleFrom(tour, n, k + 1)

\* C2: the tour length of every agent whose construction has finished is
\* the cost of its recorded tour taken as a cycle.
C2_LengthIsCycleCost ==
  ValidRun =>
    \A a \in DOMAIN ants :
      Finished(a) => ants[a].tourlength = CycleFrom(ants[a].tour, numCities, 0)

\* C3: the tour printed at the end of an experiment is a tour some agent of
\* the experiment built with the least tour length of all its agents.
C3_BestTourIsShortest ==
  (ValidRun /\ pc = "report") => besttour \in bestSeen.tours

\* C4: for every reported experiment of a run with positive population,
\* rounds and experiments, mean-of-best <= mean-of-average.
C4_BestLeqAverage ==
  ValidRun =>
    \A e \in Idx(i) :
      /\ avgbest[e].k = "fin"
      /\ avgavg[e].k = "fin"
      /\ RLeq(avgbest[e].v, avgavg[e].v)

\* C5: when the first round of an experiment begins, every off-diagonal
\* pheromone entry is the base value 1.0 and every diagonal entry is 0.
C5_FreshPheromone ==
  (ValidRun /\ DistinctY /\ pc = "roundLoop" /\ iterations = 0) =>
    \A a \in Idx(numCities) : \A b \in Idx(numCities) :
      tauMatrix[a][b] = IF a # b THEN Fin(<<1, 1>>, <<0, 1>>)
                        ELSE Fin(<<0, 1>>, <<0, 1>>)

\* C6: once initialized, every off-diagonal pheromone entry is > 0, also
\* for rho = 1.0, where an evaporation leaves every such entry at 1.0.
C6_FloorClamp ==
  (PositiveCounts /\ DistinctY /\ pc \notin {"initGraph", "initTrail"}) =>
    \A a \in Idx(numCities) : \A b \in Idx(numCities) :
      a # b =>
        /\ FClass(tauMatrix[a][b]) \in {"pos", "inf"}
        /\ (pc = "report" /\ rho = <<1, 1>>) =>
             tauMatrix[a][b] = Fin(<<1, 1>>, <<0, 1>>)

\* C7: the squared cost of every pair of cities is the squared Euclidean
\* distance (a cost c * sqrt(2) has the square 2 * c * c).
C7_EuclideanCost ==
  pc # "initGraph" =>
    \A a \in Idx(numCities) : \A b \in Idx(numCities) :
      2 * adjMatrix[a][b] * adjMatrix[a][b] =
        (cities[a].x - cities[b].x) * (cities[a].x - cities[b].x)
        + (cities[a].y - cities[b].y) * (cities[a].y - cities[b].y)

\* C8: a run with zero cities or an out-of-range configuration initializes
\* no agent, runs no round, never changes the pheromone matrix and reports
\* nothing.
C8_InvalidRunRejected ==
  InvalidRun =>
    /\ intens = 0
    /\ evapLog = <<>>
    /\ i = 0
    /\ pc \notin {"moveAnts", "intensify", "calcBest", "calcAvg", "report"}

\* C9: a selection step whose denominator is 0 terminates: the scan never
\* runs forever on it.
C9_ZeroDenomTerminates ==
  (ValidRun /\ pc = "spin") => DenomClass(ants[antI], numCities, tauMatrix, adjMatrix) # "zero"

\* C10: every evaporation comes after exactly the configured number of
\* rounds (intensifications) since the previous one, there is one
\* evaporation per finished experiment, and none inside an experiment's
\* round loop.
C10_EvaporationOncePerExperiment ==
  /\ \A k \in 1 .. Len(evapLog) : evapLog[k] = tours
  /\ Len(evapLog) = IF pc = "report" THEN i + 1 ELSE i
  /\ pc \in {"roundLoop", "moveAnts", "intensify", "spin"} => intens = iterations
  /\ pc \in {"calcBest", "calcAvg"} => intens = iterations + 1
  /\ pc \in {"expLoop", "report", "done"} => intens = 0

C10_Witness ==
  /\ tours = 2
  /\ evapLog = <<2, 2>>
  /\ pc = "done"
====
